---- MODULE Spec2Model ----
(***************************************************************************)
(* A model of the chat backend of src/app.py: the POST /chat handler, the  *)
(* GET and DELETE /chat/history/<id> handlers and the History Store they   *)
(* share (conversation_history.json, loaded whole and saved whole).        *)
(*                                                                         *)
(* Every HTTP request is served by a handler of its own (Flask's threaded  *)
(* server), so request r has its own program counter pc[r] and its own     *)
(* locals.  The only state the handlers share is the file.  A handler is   *)
(* cut into steps exactly at its accesses to the file and at the model     *)
(* call; everything between two such points is local and is part of the    *)
(* step that precedes it.                                                  *)
(***************************************************************************)
EXTENDS Integers, Sequences, FiniteSets, TLC

(***************************************************************************)
(* Bounds of the model.                                                    *)
(***************************************************************************)
\* Number of requests of one run; request r is the r-th request to arrive.
MaxRequests == 3

Requests == 1..MaxRequests

(***************************************************************************)
(* Python values.  An optional value (a key of the JSON body that may be   *)
(* missing, a local that may be None) is <<>> or <<v>>.                    *)
(***************************************************************************)
None == <<>>

Some(v) == <<v>>

\* dict.get(key, default) on the request body.
Get(d, key, default) == IF d[key] = None THEN default ELSE d[key][1]

\* Python truth of a str or None: `not x` is true of None and of ''.
Truthy(opt) == opt # None /\ opt[1] # ""

\* A dict with no key.
EmptyDict == [k \in {} |-> <<>>]

\* d[key] = value on a dict.
DictSet(d, key, value) == [k \in (DOMAIN d) \cup {key} |-> IF k = key THEN value ELSE d[k]]

\* A slip of the del: d.clear().
DictDelAll(d, key) == EmptyDict

\* del d[key].
DictDel(d, key) == [k \in (DOMAIN d) \ {key} |-> d[k]]

\* d.get(key, []).
DictGetList(d, key) == IF key \in DOMAIN d THEN d[key] ELSE <<>>

(***************************************************************************)
(* str methods.                                                            *)
(***************************************************************************)
UpperCase == <<"A","B","C","D","E","F","G","H","I","J","K","L","M",
               "N","O","P","Q","R","S","T","U","V","W","X","Y","Z">>

LowerCase == <<"a","b","c","d","e","f","g","h","i","j","k","l","m",
               "n","o","p","q","r","s","t","u","v","w","x","y","z">>

LowerChar(c) ==
    IF \E i \in 1..Len(UpperCase) : UpperCase[i] = c
    THEN LowerCase[CHOOSE i \in 1..Len(UpperCase) : UpperCase[i] = c]
    ELSE c

RECURSIVE Lower(_)
\* str.lower(): every character lowered, halves first to keep the recursion flat.
Lower(s) ==
    IF Len(s) <= 1 THEN LowerChar(s)
    ELSE LET half == Len(s) \div 2
         IN  Lower(SubSeq(s, 1, half)) \o Lower(SubSeq(s, half + 1, Len(s)))

\* `sub in s` for two str.
Contains(sub, s) ==
    \E i \in 1..(Len(s) - Len(sub) + 1) : SubSeq(s, i, i + Len(sub) - 1) = sub

\* s[-n:] on a list.
LastN(s, n) == IF Len(s) <= n THEN s ELSE SubSeq(s, Len(s) - n + 1, Len(s))

\* s.count(sub) for non-overlapping short markers: the places where sub starts.
Occurrences(sub, s) ==
    Cardinality({i \in 1..(Len(s) - Len(sub) + 1) : SubSeq(s, i, i + Len(sub) - 1) = sub})

(***************************************************************************)
(* Module-level constants of app.py.                                       *)
(***************************************************************************)
\* The system prompt (its first sentence stands for the whole text).
system_prompt == "You are an AI assistant created by Manuel Iyabor-David"

\* The keywords of the email branch of chat.
EmailKeywords == {"email", "gmail", "mail", "inbox"}

\* The value conversation_id takes when the body has none.
DefaultConversation == "default"

CalendarPlaceholder ==
    "Google Calendar access not available. Please authenticate to use calendar features."

EmailPlaceholder ==
    "Gmail access not available. Please authenticate to use email features."

\* The three fixed replies of the email branch (first sentence of each).
ConnectGuidance == "I'd love to help you with your emails!"

ConnectedReply == "I've successfully connected to your Gmail!"

ReconnectGuidance == "Looks like we need to reconnect to your Gmail."

\* The number of parameters of the bindings of get_calendar_service and
\* get_gmail_service that are live when a request is served: the module
\* defines each twice, and the second definition, which takes no parameter,
\* replaces the first.
ServiceParameters == 0

\* The number of trailing turns of the conversation sent to the model.
ContextTurns == 5

(***************************************************************************)
(* The inputs: request bodies and the replies of the model.                *)
(***************************************************************************)
Body(message, conversation_id, user_id) ==
    [message |-> message, conversation_id |-> conversation_id, user_id |-> user_id]

\* Bodies of POST /chat: without message, with an empty one, plain messages
\* on two conversations, without and with user_id, and messages that hold
\* an email keyword.
ChatBodies ==
    { Body(None, None, None),
      Body(Some(""), Some("c1"), None),
      Body(Some("hi"), None, None),
      Body(Some("hi"), Some("c1"), None),
      Body(Some("yo"), Some("c1"), Some("u1")),
      Body(Some("Check my Mail"), None, None),
      Body(Some("Check my Mail"), Some("c1"), Some("u1")) }

\* The users whose Google tokens get_user_credentials finds, and whom the
\* calendar and the mail provider answer.
UsersWithCredentials == {"u1"}

\* The ids of the path parameter of /chat/history/<conversation_id>.
ConversationIds == {DefaultConversation, "c1"}

EmailLine == "send email to: a@b.com subject: Hi body: Hello"

CreateEventMarker == "\"action\": \"create_event\""

\* The action payload of the system prompt, for given event details.
EventPayload(d) ==
    "{" \o CreateEventMarker \o ", \"event_details\": {\"summary\": \"" \o d.summary
        \o "\", \"start_time\": \"" \o d.start_time
        \o "\", \"end_time\": \"" \o d.end_time \o "\"}}"

Lunch == [summary |-> "Lunch", start_time |-> "2025-01-01T12:00:00",
          end_time |-> "2025-01-01T13:00:00"]

\* The event record create_calendar_event builds from event details.
EventRecord(d) ==
    [summary |-> d.summary,
     start |-> [dateTime |-> d.start_time, timeZone |-> "UTC"],
     end |-> [dateTime |-> d.end_time, timeZone |-> "UTC"]]

TextPlain == "Hello! How can I help?"

TextActions == "Done. " \o EventPayload(Lunch) \o " " \o EmailLine

TextMalformed == "Done. {" \o CreateEventMarker \o ", \"event_details\": {\"summary\": "

TextTwice == EventPayload(Lunch) \o " " \o EmailLine \o " " \o EventPayload(Lunch)
                \o " " \o EmailLine

\* What client.chat.completions.create may return as the message content.
AssistantTexts == {TextPlain, TextActions, TextMalformed, TextTwice}

(***************************************************************************)
(* The History Store: conversation_history.json.                           *)
(***************************************************************************)
Turn(role, content) == [role |-> role, content |-> content]

\* A slip of the append: the turn replaces the list instead of extending it.
AppendTurnOverwrites(turns, turn) == <<turn>>

\* conversation_history[conversation_id].append(turn).
AppendTurn(turns, turn) == Append(turns, turn)

\* The file does not exist.
AbsentFile == [kind |-> "absent", members |-> <<>>]

\* The file is there and holds no complete JSON document: open(.., 'w') has
\* truncated it and json.dump has not written it whole.
PartialFile == [kind |-> "partial", members |-> <<>>]

RECURSIVE Members(_, _)
\* The members of the JSON object json.dump writes for a dict.
Members(history, keys) ==
    IF keys = {} THEN <<>>
    ELSE LET k == CHOOSE x \in keys : TRUE
         IN  <<[key |-> k, value |-> history[k]]>> \o Members(history, keys \ {k})

\* json.dump(history, f) into the truncated file.
Dump(history) == [kind |-> "json", members |-> Members(history, DOMAIN history)]

\* json.load(f): the dict of the members; of two members with one key the
\* later one counts.
Parse(members) ==
    [k \in {members[i].key : i \in 1..Len(members)} |->
        members[CHOOSE i \in 1..Len(members) :
                    /\ members[i].key = k
                    /\ \A j \in (i+1)..Len(members) : members[j].key # k].value]

\* A slip: the file is looked for under another name and never found.
LoadFindsNoFile(f) == EmptyDict

\* load_conversation_history(): FileNotFoundError and json.JSONDecodeError
\* give the empty dict.
load_conversation_history(f) == IF f.kind = "json" THEN Parse(f.members) ELSE EmptyDict

\* A slip: the save keeps of each conversation only the turns of the context
\* window.
SaveKeepsContextWindow(history) ==
    Dump([k \in DOMAIN history |-> LastN(history[k], ContextTurns)])

\* save_conversation_history(history): the content of the file afterwards.
save_conversation_history(history) == Dump(history)

(***************************************************************************)
(* The steps of chat that touch nothing shared.                            *)
(***************************************************************************)
\* A slip: the keywords are looked for in the message as it was typed.
HasEmailKeywordAsTyped(user_message) ==
    \E keyword \in EmailKeywords : Contains(keyword, user_message)

\* any(keyword in user_message.lower() for keyword in [...]).
HasEmailKeyword(user_message) ==
    \E keyword \in EmailKeywords : Contains(keyword, Lower(user_message))

\* A call get_calendar_service(*args) or get_gmail_service(*args) raises
\* TypeError before its body runs when it passes other than the parameters
\* of the live binding.
ServiceCallRaises(args) == Len(args) # ServiceParameters

\* get_upcoming_events(service) of app.py evaluates datetime.datetime.now()
\* with datetime bound to the class: AttributeError, whatever the service.
UpcomingEventsRaises == TRUE

\* The calendar context chat ends up with: the placeholder unless both the
\* service and the fetch succeed.
calendar_context(user_id) ==
    IF ServiceCallRaises(<<user_id>>) \/ UpcomingEventsRaises
    THEN CalendarPlaceholder
    ELSE "Your upcoming events:\n"

\* The email context chat ends up with.
email_context(user_id) ==
    IF ServiceCallRaises(<<user_id>>)
    THEN EmailPlaceholder
    ELSE "Your recent emails:\n"

\* One call made while gathering context, and whether it raised.
Attempt(call, raised) == [call |-> call, raised |-> raised]

\* A slip: one try block around both fetches, so that the first exception
\* skips what follows it.
ContextAttemptsOneTry(user_id) ==
    IF ServiceCallRaises(<<user_id>>)
    THEN <<Attempt("get_calendar_service", TRUE)>>
    ELSE IF UpcomingEventsRaises
         THEN <<Attempt("get_calendar_service", FALSE), Attempt("get_upcoming_events", TRUE)>>
         ELSE <<Attempt("get_calendar_service", FALSE), Attempt("get_upcoming_events", FALSE),
                Attempt("get_gmail_service", FALSE), Attempt("get_recent_emails", FALSE)>>

\* The calls of the two try blocks of chat that gather context, in order: a
\* call that raises ends its own block, and the next block runs all the same.
ContextAttempts(user_id) ==
    (IF ServiceCallRaises(<<user_id>>)
     THEN <<Attempt("get_calendar_service", TRUE)>>
     ELSE <<Attempt("get_calendar_service", FALSE),
            Attempt("get_upcoming_events", UpcomingEventsRaises)>>)
    \o (IF ServiceCallRaises(<<user_id>>)
        THEN <<Attempt("get_gmail_service", TRUE)>>
        ELSE <<Attempt("get_gmail_service", FALSE), Attempt("get_recent_emails", FALSE)>>)

\* The calls of the email branch of chat: none without user_id.
EmailBranchAttempts(user_id) ==
    IF ~Truthy(user_id) THEN <<>>
    ELSE IF ServiceCallRaises(<<user_id>>)
         THEN <<Attempt("get_gmail_service", TRUE)>>
         ELSE <<Attempt("get_gmail_service", FALSE), Attempt("get_recent_emails", FALSE)>>

\* The JSON body of the reply of the email branch.
EmailBranchReply(user_id) ==
    IF ~Truthy(user_id)
    THEN [response |-> ConnectGuidance, requires_auth |-> TRUE]
    ELSE IF ServiceCallRaises(<<user_id>>)
         THEN [response |-> ReconnectGuidance, requires_auth |-> TRUE]
         ELSE [response |-> ConnectedReply, emails |-> <<>>]

\* A slip: the whole conversation is sent, without the window.
ModelInputWholeHistory(turns, user_id) ==
    << Turn("system", system_prompt),
       Turn("system", calendar_context(user_id)),
       Turn("system", email_context(user_id)) >> \o turns

\* The messages chat passes to the model, from the turns of the conversation
\* (the new user turn is already the last of them).
ModelInput(turns, user_id) ==
    << Turn("system", system_prompt),
       Turn("system", calendar_context(user_id)),
       Turn("system", email_context(user_id)) >> \o LastN(turns, ContextTurns)

\* The call chat makes to the model.
ModelCall(turns, user_id) ==
    [api |-> "chat.completions.create", body |-> ModelInput(turns, user_id)]

\* A slip: one insert and one send for every occurrence of a marker.
ActOnEveryOccurrence(ai_response) ==
    [i \in 1..Occurrences(CreateEventMarker, ai_response) |->
        [api |-> "events.insert", body |-> "event"]]
    \o [i \in 1..Occurrences("send email to:", Lower(ai_response)) |->
        [api |-> "messages.send", body |-> "email"]]

\* The provider calls chat makes between reading the reply of the model and
\* saving the history: it appends the reply and saves, and calls neither
\* create_calendar_event nor send_email.
ChatSideEffects(ai_response) == <<>>

\* A slip: the reply is cut at the first brace, to hide the action payload.
ChatReplyWithoutPayload(ai_response) ==
    [response |->
        IF Contains("{", ai_response)
        THEN SubSeq(ai_response, 1,
                    (CHOOSE i \in 1..Len(ai_response) :
                        /\ SubSeq(ai_response, i, i) = "{"
                        /\ \A j \in 1..(i - 1) : SubSeq(ai_response, j, j) # "{") - 1)
        ELSE ai_response]

\* A slip: the answer carries no text.
ChatReplyEmpty(ai_response) == [response |-> ""]

\* The JSON body chat answers with after the save.
ChatReply(ai_response) == [response |-> ai_response]

\* A slip of the validation: `if user_message is None`, which the default ''
\* of data.get('message', '') never satisfies.
MessageIsNone(user_message) == FALSE

\* The validation of chat: `if not user_message`.
MessageMissing(user_message) == user_message = ""

(***************************************************************************)
(* State.                                                                  *)
(***************************************************************************)
VARIABLES
    file,                  \* conversation_history.json
    pc,                    \* pc[r]: where the handler of request r stands
    request,               \* request[r]: route, JSON body, path parameter
    conversation_history,  \* conversation_history[r]: the local dict of the handler
    ai_response,           \* ai_response[r]: the reply of the model, None before
    calls,                 \* calls[r]: the calls to the model and the providers, in order
    attempted,             \* attempted[r]: the calls made to gather context, in order
    response,              \* response[r]: status and JSON body of the answer
    executor,              \* the invocations of the executor helpers, in order
    finished_before,       \* finished_before[r]: the requests answered when r arrived
    session,               \* session[b]: the state in the Flask session of browser b, or None
    token_pickle,          \* token.pickle: None, or the credentials it holds
    oauth_log,             \* the requests to /calendar/authorize and /oauth2callback, in order
    user_metadata,         \* the rows of the table user_metadata, by id
    user_credentials,      \* the dict user_credentials of app.py
    auth_log               \* the requests to /auth/callback, in order

\* The state of the authorisation routes.
AuthVars == <<session, token_pickle, oauth_log, user_metadata, user_credentials, auth_log>>

vars == <<file, pc, request, conversation_history, ai_response, calls, attempted, response,
          executor, finished_before, AuthVars>>

\* The browsers that hold a Flask session.
Browsers == {"b1", "b2"}

\* The user ids of the requests to /auth/callback.
AuthUsers == {"u1", "u2"}

\* A row of the table user_metadata.
Row(access_token, refresh_token, expires_at) ==
    [google_access_token |-> access_token, google_refresh_token |-> refresh_token,
     google_expires_at |-> expires_at]

\* The authorisation routes before any request: no session holds a state,
\* there is no token.pickle, the table holds the rows of the users who have
\* authorised before, and the dict user_credentials is empty.
InitAuth ==
    /\ session = [b \in Browsers |-> None]
    /\ token_pickle = None
    /\ oauth_log = <<>>
    /\ user_metadata = [u \in AuthUsers |->
            IF u \in UsersWithCredentials
            THEN Some(Row("at0", "rt0", "2024-01-01T00:00:00Z"))
            ELSE None]
    /\ user_credentials = [u \in AuthUsers |-> None]
    /\ auth_log = <<>>

NoBody == Body(None, None, None)

NoResponse == [status |-> 0, body |-> EmptyDict]

Init ==
    /\ file = AbsentFile
    /\ pc = [r \in Requests |-> "idle"]
    /\ request = [r \in Requests |-> [route |-> "none", body |-> NoBody, id |-> ""]]
    /\ conversation_history = [r \in Requests |-> EmptyDict]
    /\ ai_response = [r \in Requests |-> None]
    /\ calls = [r \in Requests |-> <<>>]
    /\ attempted = [r \in Requests |-> <<>>]
    /\ response = [r \in Requests |-> NoResponse]
    /\ executor = <<>>
    /\ finished_before = [r \in Requests |-> {}]
    /\ InitAuth

\* Requests arrive in the order of their numbers; the arrival notes which
\* requests have been answered by then.
Arrives(r) ==
    /\ pc[r] = "idle" /\ \A q \in Requests : q < r => pc[q] # "idle"
    /\ finished_before' = [finished_before EXCEPT ![r] = {q \in Requests : pc[q] = "done"}]

\* The handler of r returns.
Return(r, status, body) ==
    /\ pc' = [pc EXCEPT ![r] = "done"]
    /\ response' = [response EXCEPT ![r] = [status |-> status, body |-> body]]

(***************************************************************************)
(* POST /chat.                                                             *)
(***************************************************************************)
\* From the arrival of the request to the model call: validation, load,
\* the user turn, the email branch.
ChatBegin(r, b) ==
    LET user_message == Get(b, "message", "")
        conversation_id == Get(b, "conversation_id", DefaultConversation)
        user_id == b.user_id
        loaded == load_conversation_history(file)
        history == IF conversation_id \notin DOMAIN loaded
                   THEN DictSet(loaded, conversation_id, <<>>)
                   ELSE loaded
        appended == DictSet(history, conversation_id,
                            AppendTurn(history[conversation_id], Turn("user", user_message)))
    IN  /\ Arrives(r)
        /\ request' = [request EXCEPT ![r] = [route |-> "chat", body |-> b, id |-> conversation_id]]
        /\ IF MessageMissing(user_message)
           THEN /\ Return(r, 400, [error |-> "Message is required"])
                /\ UNCHANGED <<conversation_history, attempted>>
           ELSE /\ conversation_history' = [conversation_history EXCEPT ![r] = appended]
                /\ IF HasEmailKeyword(user_message)
                   THEN /\ Return(r, 200, EmailBranchReply(user_id))
                        /\ attempted' = [attempted EXCEPT ![r] = EmailBranchAttempts(user_id)]
                   ELSE /\ pc' = [pc EXCEPT ![r] = "generate"]
                        /\ attempted' = [attempted EXCEPT ![r] = ContextAttempts(user_id)]
                        /\ UNCHANGED response
        /\ UNCHANGED <<file, ai_response, calls, executor, AuthVars>>

\* A slip: the reply is appended to the messages of the model call, system
\* turns and all, and that list is kept as the conversation.
ChatGenerateKeepsMessages(r, text) ==
    LET conversation_id == request[r].id
        turns == conversation_history[r][conversation_id]
        call == ModelCall(turns, request[r].body.user_id)
    IN  /\ pc[r] = "generate"
        /\ ai_response' = [ai_response EXCEPT ![r] = Some(text)]
        /\ conversation_history' = [conversation_history EXCEPT
                ![r][conversation_id] = AppendTurn(call.body, Turn("assistant", text))]
        /\ calls' = [calls EXCEPT ![r] = Append(@, call) \o ChatSideEffects(text)]
        /\ pc' = [pc EXCEPT ![r] = "save"]
        /\ UNCHANGED <<file, request, response, attempted, executor,
                       finished_before, AuthVars>>

\* client.chat.completions.create returns a reply with content `text`.
ChatGenerate(r, text) ==
    LET conversation_id == request[r].id
        turns == conversation_history[r][conversation_id]
        call == ModelCall(turns, request[r].body.user_id)
    IN  /\ pc[r] = "generate"
        /\ ai_response' = [ai_response EXCEPT ![r] = Some(text)]
        /\ conversation_history' = [conversation_history EXCEPT
                ![r][conversation_id] = AppendTurn(turns, Turn("assistant", text))]
        /\ calls' = [calls EXCEPT ![r] = Append(@, call) \o ChatSideEffects(text)]
        /\ pc' = [pc EXCEPT ![r] = "save"]
        /\ UNCHANGED <<file, request, response, attempted, executor,
                       finished_before, AuthVars>>

\* A slip: a failed model call is tried once more before the error answer.
ChatGenerateRetries(r) ==
    LET turns == conversation_history[r][request[r].id]
        call == ModelCall(turns, request[r].body.user_id)
    IN  /\ pc[r] = "generate"
        /\ calls' = [calls EXCEPT ![r] = Append(@, call)]
        /\ IF Len(calls[r]) = 0
           THEN UNCHANGED <<pc, response>>
           ELSE Return(r, 500, [error |-> "APIError"])
        /\ UNCHANGED <<file, request, ai_response, conversation_history, attempted, executor,
                       finished_before, AuthVars>>

\* A slip: the history, with the user turn, is saved before the model call,
\* so that a failed call leaves the user turn in the file.
ChatGenerateRaisesAfterSave(r) ==
    LET turns == conversation_history[r][request[r].id]
        call == ModelCall(turns, request[r].body.user_id)
    IN  /\ pc[r] = "generate"
        /\ file' = save_conversation_history(conversation_history[r])
        /\ calls' = [calls EXCEPT ![r] = Append(@, call)]
        /\ Return(r, 500, [error |-> "APIError"])
        /\ UNCHANGED <<request, ai_response, conversation_history, attempted, executor,
                       finished_before, AuthVars>>

\* client.chat.completions.create raises: the except clause of chat answers.
ChatGenerateRaises(r) ==
    LET turns == conversation_history[r][request[r].id]
        call == ModelCall(turns, request[r].body.user_id)
    IN  /\ pc[r] = "generate"
        /\ calls' = [calls EXCEPT ![r] = Append(@, call)]
        /\ Return(r, 500, [error |-> "APIError"])
        /\ UNCHANGED <<file, request, ai_response, conversation_history, attempted, executor,
                       finished_before, AuthVars>>

\* A change of the save: it reads the file again and writes back only the
\* conversation of the request into what it finds.
ChatSaveMerging(r) ==
    /\ pc[r] = "save"
    /\ file' = save_conversation_history(
                    DictSet(load_conversation_history(file), request[r].id,
                            conversation_history[r][request[r].id]))
    /\ Return(r, 200, ChatReply(ai_response[r][1]))
    /\ UNCHANGED <<request, conversation_history, ai_response, calls, attempted, executor,
                   finished_before, AuthVars>>

\* A slip: the answer is returned and the save is left out.
ChatAnswersUnsaved(r) ==
    /\ pc[r] = "save"
    /\ Return(r, 200, ChatReply(ai_response[r][1]))
    /\ UNCHANGED <<file, request, conversation_history, ai_response, calls, attempted, executor,
                   finished_before, AuthVars>>

\* save_conversation_history(conversation_history) and the answer.
ChatSave(r) ==
    /\ pc[r] = "save"
    /\ file' = save_conversation_history(conversation_history[r])
    /\ Return(r, 200, ChatReply(ai_response[r][1]))
    /\ UNCHANGED <<request, conversation_history, ai_response, calls, attempted, executor,
                   finished_before, AuthVars>>

(***************************************************************************)
(* GET and DELETE /chat/history/<conversation_id>.                         *)
(***************************************************************************)
get_chat_history(r, conversation_id) ==
    /\ Arrives(r)
    /\ request' = [request EXCEPT ![r] = [route |-> "get_history", body |-> NoBody,
                                          id |-> conversation_id]]
    /\ Return(r, 200, [history |->
            DictGetList(load_conversation_history(file), conversation_id)])
    /\ UNCHANGED <<file, conversation_history, ai_response, calls, attempted, executor, AuthVars>>

ClearedReply == [message |-> "Conversation history cleared"]

\* A slip: the del without its guard raises KeyError on an id the dict lacks,
\* and the except clause answers.
ClearBeginUnguarded(r, conversation_id) ==
    LET loaded == load_conversation_history(file)
    IN  /\ Arrives(r)
        /\ request' = [request EXCEPT ![r] = [route |-> "clear_history", body |-> NoBody,
                                              id |-> conversation_id]]
        /\ IF conversation_id \in DOMAIN loaded
           THEN /\ conversation_history' = [conversation_history EXCEPT
                        ![r] = DictDel(loaded, conversation_id)]
                /\ pc' = [pc EXCEPT ![r] = "clear_save"]
                /\ UNCHANGED response
           ELSE /\ Return(r, 500, [error |-> "KeyError"])
                /\ conversation_history' = [conversation_history EXCEPT ![r] = loaded]
        /\ UNCHANGED <<file, ai_response, calls, attempted, executor, AuthVars>>

\* clear_chat_history up to its save: the load and the del.
ClearBegin(r, conversation_id) ==
    LET loaded == load_conversation_history(file)
    IN  /\ Arrives(r)
        /\ request' = [request EXCEPT ![r] = [route |-> "clear_history", body |-> NoBody,
                                              id |-> conversation_id]]
        /\ IF conversation_id \in DOMAIN loaded
           THEN /\ conversation_history' = [conversation_history EXCEPT
                        ![r] = DictDel(loaded, conversation_id)]
                /\ pc' = [pc EXCEPT ![r] = "clear_save"]
                /\ UNCHANGED response
           ELSE /\ Return(r, 200, ClearedReply)
                /\ conversation_history' = [conversation_history EXCEPT ![r] = loaded]
        /\ UNCHANGED <<file, ai_response, calls, attempted, executor, AuthVars>>

\* A slip: the DELETE answers and leaves out its save.
ClearAnswersUnsaved(r) ==
    /\ pc[r] = "clear_save"
    /\ Return(r, 200, ClearedReply)
    /\ UNCHANGED <<file, request, conversation_history, ai_response, calls, attempted,
                   executor, finished_before, AuthVars>>

\* The save of clear_chat_history and the answer.
ClearSave(r) ==
    /\ pc[r] = "clear_save"
    /\ file' = save_conversation_history(conversation_history[r])
    /\ Return(r, 200, ClearedReply)
    /\ UNCHANGED <<request, conversation_history, ai_response, calls, attempted, executor,
                   finished_before, AuthVars>>

(***************************************************************************)
(* Specifications.                                                         *)
(***************************************************************************)
\* The arrival of request r, up to its first wait; a chat request has one
\* of the given bodies.
Begin(r, bodies) ==
    \/ \E b \in bodies : ChatBegin(r, b)
    \/ \E id \in ConversationIds : get_chat_history(r, id)
    \/ \E id \in ConversationIds : ClearBegin(r, id)

\* A later step of the handler of r; the model answers one of the given texts.
Continue(r, texts) ==
    \/ \E text \in texts : ChatGenerate(r, text)
    \/ ChatGenerateRaises(r)
    \/ ChatSave(r)
    \/ ClearSave(r)

\* No handler is running.
Quiet == \A r \in Requests : pc[r] \in {"idle", "done"}

\* Requests that do not overlap: one arrives only when no handler is running.
Next == \E r \in Requests : (Quiet /\ Begin(r, ChatBodies)) \/ Continue(r, AssistantTexts)

Spec == Init /\ [][Next]_vars

\* The bodies and the reply of the runs with overlapping requests: a plain
\* message on each of two conversations, two on one of them.
OverlapBodies ==
    { Body(Some("hi"), None, None),
      Body(Some("yo"), Some("c1"), None),
      Body(Some("hi"), Some("c1"), None) }

OverlapTexts == {TextPlain}

\* Handlers run concurrently, one per request, and interleave at every step.
OverlapNext == \E r \in Requests : Begin(r, OverlapBodies) \/ Continue(r, OverlapTexts)

SpecOverlap == Init /\ [][OverlapNext]_vars

\* The file outlives the process: a run may start on a file that earlier
\* runs have written.  Conversation c1 as three earlier chats have left it.
EarlierTurns ==
    << Turn("user", "hi"), Turn("assistant", TextPlain),
       Turn("user", "yo"), Turn("assistant", TextMalformed),
       Turn("user", "hi"), Turn("assistant", TextActions) >>

\* The files of two and of three earlier chats on c1.
EarlierFiles ==
    { save_conversation_history([k \in {"c1"} |-> SubSeq(EarlierTurns, 1, n)]) : n \in {4, 6} }

InitEarlier ==
    /\ file \in EarlierFiles
    /\ pc = [r \in Requests |-> "idle"]
    /\ request = [r \in Requests |-> [route |-> "none", body |-> NoBody, id |-> ""]]
    /\ conversation_history = [r \in Requests |-> EmptyDict]
    /\ ai_response = [r \in Requests |-> None]
    /\ calls = [r \in Requests |-> <<>>]
    /\ attempted = [r \in Requests |-> <<>>]
    /\ response = [r \in Requests |-> NoResponse]
    /\ executor = <<>>
    /\ finished_before = [r \in Requests |-> {}]
    /\ InitAuth

\* Requests that do not overlap, on a file earlier runs have written.
SpecEarlier == InitEarlier /\ [][Next]_vars

(***************************************************************************)
(* Failures of the file system under the History Store.                    *)
(* load_conversation_history catches FileNotFoundError and JSONDecodeError *)
(* only, save_conversation_history catches nothing: any other exception    *)
(* of open, json.load or json.dump reaches the except clause of the route. *)
(***************************************************************************)
LoadError == "PermissionError: conversation_history.json (read)"

SaveError == "OSError: conversation_history.json (write)"

\* chat with a message, and open(.., 'r') raises.
ChatLoadRaises(r, b) ==
    /\ Arrives(r)
    /\ ~MessageMissing(Get(b, "message", ""))
    /\ request' = [request EXCEPT ![r] = [route |-> "chat", body |-> b,
                        id |-> Get(b, "conversation_id", DefaultConversation)]]
    /\ Return(r, 500, [error |-> LoadError])
    /\ UNCHANGED <<file, conversation_history, ai_response, calls, attempted, executor, AuthVars>>

\* The save of chat raises: open(.., 'w') raises and the file is as it was,
\* or json.dump raises and the file is left truncated.
ChatSaveRaises(r) ==
    /\ pc[r] = "save"
    /\ file' \in {file, PartialFile}
    /\ Return(r, 500, [error |-> SaveError])
    /\ UNCHANGED <<request, conversation_history, ai_response, calls, attempted, executor,
                   finished_before, AuthVars>>

\* get_chat_history, and the load raises.
GetHistoryRaises(r, conversation_id) ==
    /\ Arrives(r)
    /\ request' = [request EXCEPT ![r] = [route |-> "get_history", body |-> NoBody,
                                          id |-> conversation_id]]
    /\ Return(r, 500, [error |-> LoadError])
    /\ UNCHANGED <<file, conversation_history, ai_response, calls, attempted, executor, AuthVars>>

\* clear_chat_history, and the load raises.
ClearLoadRaises(r, conversation_id) ==
    /\ Arrives(r)
    /\ request' = [request EXCEPT ![r] = [route |-> "clear_history", body |-> NoBody,
                                          id |-> conversation_id]]
    /\ Return(r, 500, [error |-> LoadError])
    /\ UNCHANGED <<file, conversation_history, ai_response, calls, attempted, executor, AuthVars>>

\* The save of clear_chat_history raises.
ClearSaveRaises(r) ==
    /\ pc[r] = "clear_save"
    /\ file' \in {file, PartialFile}
    /\ Return(r, 500, [error |-> SaveError])
    /\ UNCHANGED <<request, conversation_history, ai_response, calls, attempted, executor,
                   finished_before, AuthVars>>

BeginRaises(r) ==
    \/ \E b \in ChatBodies : ChatLoadRaises(r, b)
    \/ \E id \in ConversationIds : GetHistoryRaises(r, id)
    \/ \E id \in ConversationIds : ClearLoadRaises(r, id)

\* Requests that do not overlap, on a file system that may fail.
FaultNext ==
    \/ Next
    \/ \E r \in Requests : (Quiet /\ BeginRaises(r)) \/ ChatSaveRaises(r) \/ ClearSaveRaises(r)

SpecFaults == Init /\ [][FaultNext]_vars

(***************************************************************************)
(* The executor helpers create_calendar_event(service, event_details) and   *)
(* send_email(service, to_email, subject, body).  `outcome` is what the     *)
(* provider does with the request the helper executes: "ok", or the         *)
(* exception it raises.  A helper returns the provider calls it has made,   *)
(* the exception it has raised to its caller (None when it returned) and    *)
(* its result.                                                              *)
(***************************************************************************)
\* Number of invocations of one run.
MaxInvocations == 3

ProviderOutcomes == {"ok", "HttpError"}

Dinner == [summary |-> "Dinner", start_time |-> "2025-01-02T19:00:00",
           end_time |-> "2025-01-02T20:00:00"]

\* The event_details a caller passes: None, or the details of an event.
EventDetailsArgs == {None, Some(Lunch), Some(Dinner)}

\* The body a caller passes to send_email: None, or a text.
EmailBodyArgs == {None, Some("Hello")}

Outcome(provider_calls, raised, result) ==
    [provider_calls |-> provider_calls, raised |-> raised, result |-> result]

\* A slip: the except clause executes the insert once more before it raises.
CreateEventRetrying(event_details, outcome) ==
    IF event_details = None
    THEN Outcome(<<>>, Some("AttributeError"), None)
    ELSE LET insert == [api |-> "events.insert", body |-> EventRecord(event_details[1])]
         IN  IF outcome = "ok"
             THEN Outcome(<<insert>>, None, Some("event"))
             ELSE Outcome(<<insert, insert>>, Some(outcome), None)

\* create_calendar_event: event_details.get raises on None before any call;
\* otherwise one events.insert, whose exception is logged and raised again.
create_calendar_event(event_details, outcome) ==
    IF event_details = None
    THEN Outcome(<<>>, Some("AttributeError"), None)
    ELSE LET insert == [api |-> "events.insert", body |-> EventRecord(event_details[1])]
         IN  IF outcome = "ok"
             THEN Outcome(<<insert>>, None, Some("event"))
             ELSE Outcome(<<insert>>, Some(outcome), None)

\* send_email: MIMEText(body) raises on None before any call; otherwise one
\* messages.send of the encoded message, whose exception is logged and
\* raised again.
send_email(to_email, subject, body, outcome) ==
    IF body = None
    THEN Outcome(<<>>, Some("AttributeError"), None)
    ELSE LET send == [api |-> "messages.send",
                      body |-> [raw |-> [to |-> to_email, subject |-> subject,
                                         text |-> body[1]]]]
         IN  IF outcome = "ok"
             THEN Outcome(<<send>>, None, Some("message"))
             ELSE Outcome(<<send>>, Some(outcome), None)

\* A caller invokes create_calendar_event.
InvokeCreateEvent ==
    /\ Len(executor) < MaxInvocations
    /\ \E event_details \in EventDetailsArgs, outcome \in ProviderOutcomes :
          executor' = Append(executor,
                [helper |-> "create_calendar_event", outcome |-> outcome,
                 returned |-> create_calendar_event(event_details, outcome)])
    /\ UNCHANGED <<file, pc, request, conversation_history, ai_response, calls, attempted,
                   response, finished_before, AuthVars>>

\* A caller invokes send_email.
InvokeSendEmail ==
    /\ Len(executor) < MaxInvocations
    /\ \E body \in EmailBodyArgs, outcome \in ProviderOutcomes :
          executor' = Append(executor,
                [helper |-> "send_email", outcome |-> outcome,
                 returned |-> send_email("a@b.com", "Hi", body, outcome)])
    /\ UNCHANGED <<file, pc, request, conversation_history, ai_response, calls, attempted,
                   response, finished_before, AuthVars>>

ExecutorNext == InvokeCreateEvent \/ InvokeSendEmail

\* Callers of the helpers, one invocation after the other.
SpecExecutor == Init /\ [][ExecutorNext]_vars

(***************************************************************************)
(* The save as the file system sees it.  save_conversation_history opens    *)
(* the file with mode 'w', which truncates it, and json.dump then writes    *)
(* the document piece by piece; a handler that loads in between reads a     *)
(* file with no complete document in it.                                    *)
(***************************************************************************)
\* open(CONVERSATION_HISTORY_FILE, 'w') in the save of chat.
ChatSaveOpens(r) ==
    /\ pc[r] = "save"
    /\ file' = PartialFile
    /\ pc' = [pc EXCEPT ![r] = "dump"]
    /\ UNCHANGED <<request, conversation_history, ai_response, calls, attempted, response,
                   executor, finished_before, AuthVars>>

\* json.dump in the save of chat has written the last piece; chat answers.
ChatSaveDumps(r) ==
    /\ pc[r] = "dump"
    /\ file' = Dump(conversation_history[r])
    /\ Return(r, 200, ChatReply(ai_response[r][1]))
    /\ UNCHANGED <<request, conversation_history, ai_response, calls, attempted,
                   executor, finished_before, AuthVars>>

\* open(CONVERSATION_HISTORY_FILE, 'w') in the save of clear_chat_history.
ClearSaveOpens(r) ==
    /\ pc[r] = "clear_save"
    /\ file' = PartialFile
    /\ pc' = [pc EXCEPT ![r] = "clear_dump"]
    /\ UNCHANGED <<request, conversation_history, ai_response, calls, attempted, response,
                   executor, finished_before, AuthVars>>

\* json.dump in the save of clear_chat_history has written the last piece.
ClearSaveDumps(r) ==
    /\ pc[r] = "clear_dump"
    /\ file' = Dump(conversation_history[r])
    /\ Return(r, 200, ClearedReply)
    /\ UNCHANGED <<request, conversation_history, ai_response, calls, attempted,
                   executor, finished_before, AuthVars>>

\* Handlers run concurrently and interleave also inside a save.
TornNext ==
    \E r \in Requests :
        \/ Begin(r, OverlapBodies)
        \/ \E text \in OverlapTexts : ChatGenerate(r, text)
        \/ ChatGenerateRaises(r)
        \/ ChatSaveOpens(r)
        \/ ChatSaveDumps(r)
        \/ ClearSaveOpens(r)
        \/ ClearSaveDumps(r)

SpecTornSave == Init /\ [][TornNext]_vars

(***************************************************************************)
(* /calendar/authorize and /oauth2callback.  The requests of one browser    *)
(* come one after the other and carry its session; each handler is one      *)
(* step.                                                                    *)
(***************************************************************************)
\* Number of requests to the two routes in one run.
MaxOAuthRequests == 4

\* The state of the chat routes and of the executor helpers.
ChatVars == <<file, pc, request, conversation_history, ai_response, calls, attempted,
              response, executor, finished_before>>

OAuthEvent(b, route, status, state) ==
    [browser |-> b, route |-> route, status |-> status, state |-> state]

\* authorize: the flow is built and gives an authorisation URL and a fresh
\* state, which goes into the session; or building it raises and the except
\* clause answers.
authorize(b, flow_built) ==
    LET state == Len(oauth_log) + 1
    IN  /\ Len(oauth_log) < MaxOAuthRequests
        /\ IF flow_built
           THEN /\ session' = [session EXCEPT ![b] = Some(state)]
                /\ oauth_log' = Append(oauth_log, OAuthEvent(b, "authorize", 200, Some(state)))
           ELSE /\ UNCHANGED session
                /\ oauth_log' = Append(oauth_log, OAuthEvent(b, "authorize", 500, None))
        /\ UNCHANGED <<token_pickle, user_metadata, user_credentials, auth_log, ChatVars>>

\* A slip: the callback leaves the state in the session.
oauth2callbackKeepsState(b, exchanged) ==
    LET state == session[b]
    IN  /\ Len(oauth_log) < MaxOAuthRequests
        /\ IF state = None
           THEN /\ oauth_log' = Append(oauth_log, OAuthEvent(b, "oauth2callback", 400, None))
                /\ UNCHANGED <<session, token_pickle>>
           ELSE IF ~exchanged
           THEN /\ oauth_log' = Append(oauth_log, OAuthEvent(b, "oauth2callback", 500, state))
                /\ UNCHANGED <<session, token_pickle>>
           ELSE /\ token_pickle' = Some([state |-> state[1], exchange |-> Len(oauth_log) + 1])
                /\ UNCHANGED session
                /\ oauth_log' = Append(oauth_log, OAuthEvent(b, "oauth2callback", 200, state))
        /\ UNCHANGED <<user_metadata, user_credentials, auth_log, ChatVars>>

\* oauth2callback: 400 without a state in the session; 500 when the flow or
\* fetch_token raises; otherwise the credentials of the exchange are written
\* to token.pickle and the state is popped from the session.
oauth2callback(b, exchanged) ==
    LET state == session[b]
    IN  /\ Len(oauth_log) < MaxOAuthRequests
        /\ IF state = None
           THEN /\ oauth_log' = Append(oauth_log, OAuthEvent(b, "oauth2callback", 400, None))
                /\ UNCHANGED <<session, token_pickle>>
           ELSE IF ~exchanged
           THEN /\ oauth_log' = Append(oauth_log, OAuthEvent(b, "oauth2callback", 500, state))
                /\ UNCHANGED <<session, token_pickle>>
           ELSE /\ token_pickle' = Some([state |-> state[1], exchange |-> Len(oauth_log) + 1])
                /\ session' = [session EXCEPT ![b] = None]
                /\ oauth_log' = Append(oauth_log, OAuthEvent(b, "oauth2callback", 200, state))
        /\ UNCHANGED <<user_metadata, user_credentials, auth_log, ChatVars>>

OAuthNext ==
    \E b \in Browsers, succeeds \in BOOLEAN :
        authorize(b, succeeds) \/ oauth2callback(b, succeeds)

SpecOAuth == Init /\ [][OAuthNext]_vars

(***************************************************************************)
(* POST /auth/callback.                                                     *)
(***************************************************************************)
\* Number of requests to /auth/callback in one run.
MaxAuthCallbacks == 2

Digits == {"0", "1", "2", "3", "4", "5", "6", "7", "8", "9"}

RECURSIVE ReplaceZ(_)
\* expiry.replace('Z', '+00:00').
ReplaceZ(s) ==
    IF Len(s) = 0 THEN s
    ELSE (IF SubSeq(s, 1, 1) = "Z" THEN "+00:00" ELSE SubSeq(s, 1, 1))
            \o ReplaceZ(SubSeq(s, 2, Len(s)))

\* The shape datetime.fromisoformat accepts, d for a digit, s for a sign and
\* x for the one character between date and time; a string may stop after
\* the date, the minutes or the seconds.
IsoShape == "dddd-dd-ddxdd:dd:ddsdd:dd"

IsoLengths == {10, 16, 19, 25}

\* datetime.fromisoformat(s) returns; otherwise it raises ValueError.
FromIsoFormatAccepts(s) ==
    /\ Len(s) \in IsoLengths
    /\ \A i \in 1..Len(s) :
          LET c == SubSeq(s, i, i)
              k == SubSeq(IsoShape, i, i)
          IN  IF k = "d" THEN c \in Digits
              ELSE IF k = "s" THEN c \in {"+", "-"}
              ELSE IF k = "x" THEN TRUE
              ELSE c = k

\* create_credentials_from_tokens: the Credentials object, or the exception
\* of datetime.fromisoformat.
create_credentials_from_tokens(access_token, refresh_token, expiry) ==
    IF FromIsoFormatAccepts(ReplaceZ(expiry))
    THEN [raised |-> None,
          credentials |-> Some([token |-> access_token, refresh_token |-> refresh_token,
                                expiry |-> ReplaceZ(expiry)])]
    ELSE [raised |-> Some("ValueError"), credentials |-> None]

AuthBody(user_id, access_token, refresh_token, expires_at) ==
    [user_id |-> user_id, access_token |-> access_token,
     refresh_token |-> refresh_token, expires_at |-> expires_at]

\* Bodies of POST /auth/callback: complete ones, with an expiry that parses
\* and with one that does not, and bodies that lack a field.
AuthBodies ==
    { AuthBody(user_id, access_token, Some("rt1"), expires_at) :
        user_id \in {None} \cup {Some(u) : u \in AuthUsers},
        access_token \in {None, Some("at1")},
        expires_at \in {None, Some("2025-01-01T00:00:00Z"), Some("tomorrow")} }

\* What the upsert does: the row is written; execute() raises; the response
\* reports an error.  In the last two cases the row is not written.
UpsertOutcomes == {"ok", "raises", "error"}

AuthEvent(body, status) == [body |-> body, status |-> status]

\* handle_auth_callback, one step.
handle_auth_callback(body, upsert) ==
    LET user_id == body.user_id
        made == create_credentials_from_tokens(body.access_token[1], body.refresh_token[1],
                                               body.expires_at[1])
    IN  /\ Len(auth_log) < MaxAuthCallbacks
        /\ IF ~ \A field \in {"user_id", "access_token", "refresh_token", "expires_at"} :
                    Truthy(body[field])
           THEN /\ auth_log' = Append(auth_log, AuthEvent(body, 400))
                /\ UNCHANGED <<user_metadata, user_credentials>>
           ELSE IF upsert # "ok"
           THEN /\ auth_log' = Append(auth_log, AuthEvent(body, 500))
                /\ UNCHANGED <<user_metadata, user_credentials>>
           ELSE /\ user_metadata' = [user_metadata EXCEPT ![user_id[1]] =
                        Some(Row(body.access_token[1], body.refresh_token[1],
                                 body.expires_at[1]))]
                /\ IF made.raised # None
                   THEN /\ auth_log' = Append(auth_log, AuthEvent(body, 500))
                        /\ UNCHANGED user_credentials
                   ELSE /\ user_credentials' = [user_credentials EXCEPT ![user_id[1]] =
                                made.credentials]
                        /\ auth_log' = Append(auth_log, AuthEvent(body, 200))
        /\ UNCHANGED <<session, token_pickle, oauth_log, ChatVars>>

AuthCallbackNext ==
    \E body \in AuthBodies, upsert \in UpsertOutcomes : handle_auth_callback(body, upsert)

SpecAuthCallback == Init /\ [][AuthCallbackNext]_vars

TypeOK ==
    /\ file.kind \in {"absent", "json", "partial"}
    /\ \A r \in Requests :
        /\ pc[r] \in {"idle", "generate", "save", "dump", "clear_save", "clear_dump", "done"}
        /\ response[r].status \in {0, 200, 400, 500}
        /\ Len(calls[r]) <= 1

(***************************************************************************)
(* Vocabulary of the properties.                                           *)
(***************************************************************************)
Done(r) == pc[r] = "done"

IsChat(r) == request[r].route = "chat"

\* The message of a chat request, '' when the body has none.
Message(r) == Get(request[r].body, "message", "")

\* The turns the file holds for a conversation: none when the file is
\* missing, unreadable or has no such key.
PersistedIn(f, id) ==
    IF f.kind = "json" /\ \E i \in 1..Len(f.members) : f.members[i].key = id
    THEN f.members[CHOOSE i \in 1..Len(f.members) : f.members[i].key = id].value
    ELSE <<>>

Persisted(id) == PersistedIn(file, id)

\* The calls of request r to one API.
CallsTo(r, api) == SelectSeq(calls[r], LAMBDA c : c.api = api)

ModelCalls(r) == Len(CallsTo(r, "chat.completions.create"))

CalendarInserts(r) == Len(CallsTo(r, "events.insert"))

EmailSends(r) == Len(CallsTo(r, "messages.send"))

\* The model was called for r and returned a reply / raised.
ModelSucceeded(r) == ai_response[r] # None

ModelFailed(r) == Done(r) /\ ModelCalls(r) > 0 /\ ai_response[r] = None

Is2xx(status) == status \in 200..299

Is4xx(status) == status \in 400..499

\* The answer of r carries `text` as its response.
Carries(r, text) ==
    /\ "response" \in DOMAIN response[r].body
    /\ response[r].body.response = text

\* The answer of r reports an exception of the History Store.
StoreRaised(r) ==
    /\ "error" \in DOMAIN response[r].body
    /\ response[r].body.error \in {LoadError, SaveError}

UserTurn(r) == Turn("user", Message(r))

AssistantTurn(r) == Turn("assistant", ai_response[r][1])

\* s without its last n elements.
DropLast(s, n) == SubSeq(s, 1, Len(s) - n)

(***************************************************************************)
(* C1.  A chat request without message, or with an empty one, is answered  *)
(* 4xx in the step in which it arrives, and that step leaves the file as   *)
(* it was: no conversation is created, no turn is appended.                *)
(***************************************************************************)
C1_EmptyMessageRejected ==
    [][\A r \in Requests :
          (pc[r] = "idle" /\ pc'[r] # "idle" /\ request'[r].route = "chat"
                /\ ~Truthy(request'[r].body.message))
          => (pc'[r] = "done" /\ Is4xx(response'[r].status) /\ file' = file)]_vars

\* Both kinds of request were rejected while the store held a conversation.
C1_Witness ==
    /\ file.kind = "json"
    /\ \E r \in Requests : Done(r) /\ IsChat(r) /\ request[r].body.message = None
                            /\ response[r].status = 400
    /\ \E r \in Requests : Done(r) /\ IsChat(r) /\ request[r].body.message = Some("")
                            /\ response[r].status = 400

(***************************************************************************)
(* C2.  Two chat requests on one conversation id, one right after the      *)
(* other, both answered by the model: the conversation in the file is what *)
(* it held before the first, then user-1, assistant-1, user-2,             *)
(* assistant-2.  (What it held before the first is what the first loaded:  *)
(* while a request waits for the model, its local copy is the persisted    *)
(* conversation plus its user turn.)                                       *)
(***************************************************************************)
C2_TwoSequentialChats ==
    \A k \in Requests :
        /\ (pc[k] = "generate")
             => conversation_history[k][request[k].id]
                    = Persisted(request[k].id) \o <<UserTurn(k)>>
        /\ ( /\ k + 1 \in Requests
             /\ Done(k) /\ Done(k + 1)
             /\ IsChat(k) /\ IsChat(k + 1)
             /\ request[k].id = request[k + 1].id
             /\ ModelSucceeded(k) /\ ModelSucceeded(k + 1)
             /\ (k + 2 \in Requests => pc[k + 2] = "idle") )
             => LET held == DropLast(conversation_history[k][request[k].id], 2)
                IN  Persisted(request[k].id)
                        = held \o <<UserTurn(k), AssistantTurn(k),
                                    UserTurn(k + 1), AssistantTurn(k + 1)>>

\* Three chats on conversation c1: the last two, with different messages,
\* came after the conversation already held turns.
C2_Witness ==
    \E k \in Requests :
        /\ k + 1 \in Requests /\ Done(k) /\ Done(k + 1) /\ IsChat(k) /\ IsChat(k + 1)
        /\ request[k].id = request[k + 1].id
        /\ ModelSucceeded(k) /\ ModelSucceeded(k + 1)
        /\ Message(k) # Message(k + 1)
        /\ ai_response[k] # ai_response[k + 1]
        /\ Len(Persisted(request[k].id)) = 6

(***************************************************************************)
(* C3.  The save of a chat request writes the whole dict the request       *)
(* loaded: for every conversation other than its own, the file holds       *)
(* afterwards what the request read at its load, whatever another request  *)
(* has saved since.  So two overlapping requests on different ids can      *)
(* leave a file that lacks the turns of one of them (C3_LostUpdate).       *)
(***************************************************************************)
C3_SaveOverwritesWholeStore ==
    [][\A r \in Requests :
          (pc[r] = "save" /\ pc'[r] = "done")
          => \A id \in ConversationIds :
                id # request[r].id
                => PersistedIn(file', id) = DictGetList(conversation_history[r], id)]_vars

\* Two chat requests on different ids were both answered 200 with the reply
\* of the model, nothing was ever cleared, and the file holds no turn of one
\* of them.
C3_LostUpdate ==
    /\ \A q \in Requests : request[q].route # "clear_history"
    /\ \E r1, r2 \in Requests :
        /\ r1 # r2
        /\ Done(r1) /\ Done(r2) /\ IsChat(r1) /\ IsChat(r2)
        /\ request[r1].id # request[r2].id
        /\ response[r1].status = 200 /\ response[r2].status = 200
        /\ ModelSucceeded(r1) /\ ModelSucceeded(r2)
        /\ Persisted(request[r1].id) = <<>>
        /\ Persisted(request[r2].id) = <<UserTurn(r2), AssistantTurn(r2)>>

(***************************************************************************)
(* C4 as the spec states it.  A chat request is answered non-2xx only when *)
(* its message is missing or empty or the model call fails; with a message *)
(* and a reply of the model the answer is 2xx and carries the reply,       *)
(* whatever else fails, a load or a save of the History Store included.    *)
(***************************************************************************)
C4_Original ==
    \A r \in Requests :
        (Done(r) /\ IsChat(r))
        => /\ ~Is2xx(response[r].status) => (MessageMissing(Message(r)) \/ ModelFailed(r))
           /\ (~MessageMissing(Message(r)) /\ ModelSucceeded(r))
                => (Is2xx(response[r].status) /\ Carries(r, ai_response[r][1]))

(***************************************************************************)
(* C4, amended.  A chat request is answered non-2xx only when its message  *)
(* is missing or empty, the model call fails, or the load or the save of   *)
(* the History Store raises; with a message, a reply of the model and no   *)
(* exception of the store the answer is 2xx and carries the reply, though  *)
(* the credentials never resolve and both fetches fail.                    *)
(***************************************************************************)
C4_OnlyValidationModelAndStoreAbort ==
    \A r \in Requests :
        (Done(r) /\ IsChat(r))
        => /\ ~Is2xx(response[r].status)
                => (MessageMissing(Message(r)) \/ ModelFailed(r) \/ StoreRaised(r))
           /\ (~MessageMissing(Message(r)) /\ ModelSucceeded(r) /\ ~StoreRaised(r))
                => (Is2xx(response[r].status) /\ Carries(r, ai_response[r][1]))

\* A chat was answered 200 with the reply of the model although both
\* contexts it sent to the model were the placeholders of a failed fetch.
C4_Witness ==
    \E r \in Requests :
        /\ Done(r) /\ IsChat(r) /\ ModelSucceeded(r)
        /\ response[r].status = 200 /\ Carries(r, ai_response[r][1])
        /\ calls[r][1].body[2].content = CalendarPlaceholder
        /\ calls[r][1].body[3].content = EmailPlaceholder

(***************************************************************************)
(* C5 as the spec states it.  Every chat request with a message calls the  *)
(* model exactly once; when the call fails the answer is non-2xx.          *)
(***************************************************************************)
C5_Original ==
    \A r \in Requests :
        (Done(r) /\ IsChat(r) /\ ~MessageMissing(Message(r)))
        => /\ ModelCalls(r) = 1
           /\ ModelFailed(r) => ~Is2xx(response[r].status)

(***************************************************************************)
(* C5, amended.  A chat request calls the model at most once: exactly once *)
(* when its message is a non-empty text without email keyword and the load *)
(* of the History Store does not raise, never otherwise.  When the call    *)
(* fails there is no second call and the answer is non-2xx.                *)
(***************************************************************************)
C5_ModelCalledAtMostOnce ==
    \A r \in Requests :
        /\ ModelCalls(r) <= 1
        /\ (Done(r) /\ IsChat(r))
            => /\ ModelCalls(r) =
                    IF \/ MessageMissing(Message(r))
                       \/ HasEmailKeyword(Message(r))
                       \/ (StoreRaised(r) /\ response[r].body.error = LoadError)
                    THEN 0 ELSE 1
               /\ ModelFailed(r) => ~Is2xx(response[r].status)

\* One chat ended with a failed model call and an error answer, another, with
\* an email keyword, was answered without any model call.
C5_Witness ==
    /\ \E r \in Requests : IsChat(r) /\ ModelFailed(r) /\ ModelCalls(r) = 1
                            /\ response[r].status = 500
    /\ \E r \in Requests : Done(r) /\ IsChat(r) /\ HasEmailKeyword(Message(r))
                            /\ ModelCalls(r) = 0 /\ response[r].status = 200

(***************************************************************************)
(* Vocabulary of the properties on the reply of the model.                 *)
(***************************************************************************)
\* Event details a reply may carry.
EventSamples == {Lunch}

\* The reply holds the well-formed action payload of some event details.
HasWellFormedEvent(text) == \E d \in EventSamples : Contains(EventPayload(d), text)

\* The reply holds the create_event marker and no well-formed payload.
HasMalformedEvent(text) ==
    Contains(CreateEventMarker, text) /\ ~HasWellFormedEvent(text)

(***************************************************************************)
(* C6 as the spec states it.  When the reply of the model holds a          *)
(* well-formed create_event payload, the chat turn issues exactly one      *)
(* calendar insert, for the event of the parsed event_details.             *)
(***************************************************************************)
C6_EventCreatedOnce ==
    \A r \in Requests :
        (Done(r) /\ IsChat(r) /\ ModelSucceeded(r))
        => \A d \in EventSamples :
              Contains(EventPayload(d), ai_response[r][1])
              => /\ CalendarInserts(r) = 1
                 /\ CallsTo(r, "events.insert")[1].body = EventRecord(d)

(***************************************************************************)
(* C7.  When the reply of the model holds the create_event marker and no   *)
(* well-formed payload, the chat turn issues no calendar insert and is     *)
(* answered 2xx with a response equal to the reply.                        *)
(***************************************************************************)
C7_MalformedEventIgnored ==
    \A r \in Requests :
        (IsChat(r) /\ ModelSucceeded(r) /\ HasMalformedEvent(ai_response[r][1]))
        => /\ CalendarInserts(r) = 0
           /\ Done(r) => (Is2xx(response[r].status) /\ Carries(r, ai_response[r][1]))

C7_Witness ==
    \E r \in Requests :
        /\ Done(r) /\ IsChat(r) /\ ai_response[r] = Some(TextMalformed)
        /\ HasMalformedEvent(TextMalformed)
        /\ response[r] = [status |-> 200, body |-> [response |-> TextMalformed]]

(***************************************************************************)
(* C8 as the spec states it.  When the reply of the model holds            *)
(* `send email to: a@b.com subject: Hi body: Hello`, the chat turn         *)
(* extracts the intent to a@b.com, subject Hi, body Hello: the email it    *)
(* sends has these fields.                                                 *)
(***************************************************************************)
C8_EmailIntentExtracted ==
    \A r \in Requests :
        (Done(r) /\ IsChat(r) /\ ModelSucceeded(r) /\ Contains(EmailLine, ai_response[r][1]))
        => \E i \in 1..Len(calls[r]) :
              /\ calls[r][i].api = "messages.send"
              /\ calls[r][i].body = [to |-> "a@b.com", subject |-> "Hi", body |-> "Hello"]

(***************************************************************************)
(* C9.  A chat turn issues at most one calendar insert and at most one     *)
(* email send, also when the reply holds a marker more than once.          *)
(***************************************************************************)
C9_AtMostOneActionPerTurn ==
    \A r \in Requests : CalendarInserts(r) <= 1 /\ EmailSends(r) <= 1

\* A chat was answered with a reply that holds each marker twice.
C9_Witness ==
    \E r \in Requests :
        /\ Done(r) /\ IsChat(r) /\ ModelSucceeded(r) /\ response[r].status = 200
        /\ Occurrences(CreateEventMarker, ai_response[r][1]) > 1
        /\ Occurrences("send email to:", Lower(ai_response[r][1])) > 1

(***************************************************************************)
(* C10.  GET /chat/history/<id>, after requests that did not overlap,      *)
(* returns exactly the turns the chat requests on that id have appended    *)
(* since the id was last cleared: same roles, same contents, same order.   *)
(***************************************************************************)
RECURSIVE AppendedBy(_, _)
\* The turns appended to conversation id by the first k requests of the run:
\* a user turn and an assistant turn for every chat the model answered.
AppendedBy(id, k) ==
    IF k = 0 THEN <<>>
    ELSE IF request[k].id # id THEN AppendedBy(id, k - 1)
    ELSE IF IsChat(k) /\ ModelSucceeded(k)
            THEN AppendedBy(id, k - 1) \o <<UserTurn(k), AssistantTurn(k)>>
    ELSE IF request[k].route = "clear_history" THEN <<>>
    ELSE AppendedBy(id, k - 1)

C10_HistoryRoundTrip ==
    \A g \in Requests :
        (Done(g) /\ request[g].route = "get_history")
        => /\ response[g].status = 200
           /\ response[g].body = [history |-> AppendedBy(request[g].id, g - 1)]

\* A GET returned the four turns of two chats.
C10_Witness ==
    \E g \in Requests :
        /\ Done(g) /\ request[g].route = "get_history"
        /\ Len(response[g].body.history) = 4
        /\ response[g].body.history[1].content # response[g].body.history[3].content
        /\ response[g].body.history[2].content # response[g].body.history[4].content

(***************************************************************************)
(* C11.  DELETE /chat/history/<id> is idempotent.  A DELETE that arrives    *)
(* right after a DELETE on the same id was answered, or on an id no chat    *)
(* has ever written, is answered in the step in which it arrives, with the  *)
(* success response (the one the first DELETE got), and that step leaves    *)
(* the file as it was: the handler does not reach its save.                 *)
(***************************************************************************)
IsClear(r) == request[r].route = "clear_history"

\* Some chat before request r has written conversation id.
WrittenBefore(id, r) ==
    \E q \in Requests : q < r /\ IsChat(q) /\ request[q].id = id /\ ModelSucceeded(q)

C11_DeleteIdempotent ==
    [][\A r \in Requests :
          (pc[r] = "idle" /\ pc'[r] # "idle" /\ request'[r].route = "clear_history")
          => /\ ( /\ r - 1 \in Requests /\ IsClear(r - 1)
                  /\ request[r - 1].id = request'[r].id )
                => /\ pc'[r] = "done"
                   /\ Is2xx(response'[r].status)
                   /\ response'[r] = response[r - 1]
                   /\ file' = file
             /\ ~WrittenBefore(request'[r].id, r)
                => /\ pc'[r] = "done"
                   /\ response'[r] = [status |-> 200, body |-> ClearedReply]
                   /\ file' = file]_vars

\* A conversation was written, a DELETE removed it and a second DELETE on the
\* same id was answered like the first; the file is the one the first left.
C11_Witness ==
    \E r \in Requests :
        /\ r - 1 \in Requests /\ Done(r) /\ Done(r - 1) /\ IsClear(r) /\ IsClear(r - 1)
        /\ request[r].id = request[r - 1].id
        /\ WrittenBefore(request[r].id, r - 1)
        /\ response[r] = response[r - 1] /\ response[r].status = 200
        /\ file = save_conversation_history(conversation_history[r - 1])
        /\ request[r].id \notin DOMAIN conversation_history[r - 1]

(***************************************************************************)
(* C12.  In a chat turn the calendar fetch and the mail fetch are each      *)
(* best-effort.  A chat that gets past the email branch attempts both,      *)
(* whatever the other did; a fetch that failed (the service call raised,    *)
(* or the provider call did) leaves its placeholder as the context the      *)
(* model is passed; and the request goes on to the model call and, when     *)
(* the model answers, to a 2xx answer.                                      *)
(***************************************************************************)
\* Request r has made the call `call` while gathering context.
Attempted(r, call) == \E i \in 1..Len(attempted[r]) : attempted[r][i].call = call

\* One of the given calls of r raised.
AttemptRaised(r, names) ==
    \E i \in 1..Len(attempted[r]) : attempted[r][i].call \in names /\ attempted[r][i].raised

CalendarFetchFailed(r) == AttemptRaised(r, {"get_calendar_service", "get_upcoming_events"})

MailFetchFailed(r) == AttemptRaised(r, {"get_gmail_service", "get_recent_emails"})

\* The chat request r has gathered its context.
PastContext(r) ==
    /\ IsChat(r) /\ ~MessageMissing(Message(r)) /\ ~HasEmailKeyword(Message(r))
    /\ pc[r] \in {"generate", "save", "done"}

C12_FetchesIndependent ==
    \A r \in Requests :
        PastContext(r)
        => /\ Attempted(r, "get_calendar_service") /\ Attempted(r, "get_gmail_service")
           /\ Done(r) => ModelCalls(r) = 1
           /\ (Done(r) /\ ModelSucceeded(r)) => Is2xx(response[r].status)
           /\ \A i \in 1..Len(calls[r]) :
                 calls[r][i].api = "chat.completions.create"
                 => /\ CalendarFetchFailed(r)
                        => calls[r][i].body[2] = Turn("system", CalendarPlaceholder)
                    /\ MailFetchFailed(r)
                        => calls[r][i].body[3] = Turn("system", EmailPlaceholder)

\* A chat whose two service calls both raised was answered by the model,
\* which had been passed the two placeholders.
C12_Witness ==
    \E r \in Requests :
        /\ Done(r) /\ PastContext(r) /\ response[r].status = 200
        /\ CalendarFetchFailed(r) /\ MailFetchFailed(r)
        /\ Len(attempted[r]) = 2
        /\ calls[r][1].body[2].content = CalendarPlaceholder
        /\ calls[r][1].body[3].content = EmailPlaceholder
        /\ Carries(r, ai_response[r][1])

(***************************************************************************)
(* C13.  When requests do not overlap, every step leaves each conversation  *)
(* of the file as it was, or as it was with turns added at its end (a       *)
(* conversation the file did not hold starts from no turn), or removes it   *)
(* in the save of a DELETE on that very id.  A GET leaves the file as it    *)
(* was.                                                                     *)
(***************************************************************************)
\* The file f holds conversation id.
HeldIn(f, id) == id \in DOMAIN load_conversation_history(f)

IsPrefix(s, t) == Len(s) <= Len(t) /\ SubSeq(t, 1, Len(s)) = s

C13_AppendOnly ==
    [][/\ \A id \in ConversationIds :
            \/ (HeldIn(file', id) <=> HeldIn(file, id))
                    /\ PersistedIn(file', id) = PersistedIn(file, id)
            \/ HeldIn(file', id) /\ IsPrefix(PersistedIn(file, id), PersistedIn(file', id))
            \/ /\ HeldIn(file, id) /\ ~HeldIn(file', id)
               /\ \E r \in Requests : /\ pc[r] = "clear_save" /\ pc'[r] = "done"
                                       /\ IsClear(r) /\ request[r].id = id
       /\ \A r \in Requests :
            (pc[r] = "idle" /\ request'[r].route = "get_history") => file' = file]_vars

\* A conversation was written, removed by a DELETE and written again: the
\* file holds the two turns of the last chat only.
C13_Witness ==
    /\ IsChat(1) /\ ModelSucceeded(1) /\ IsClear(2) /\ IsChat(3) /\ Done(3)
    /\ request[1].id = request[2].id /\ request[2].id = request[3].id
    /\ ModelSucceeded(3)
    /\ Persisted(request[3].id) = <<UserTurn(3), AssistantTurn(3)>>

(***************************************************************************)
(* C14 as the spec states it.  In the step in which a chat request that no  *)
(* other request overlaps is answered 2xx with a response text t, the file  *)
(* is the saved dict of the request and the conversation ends with the      *)
(* user turn of the message and the assistant turn of content t.           *)
(***************************************************************************)
\* The step answers the chat request r with a 2xx that carries a text.
AnswersChat2xx(r) ==
    /\ pc[r] # "done" /\ pc'[r] = "done" /\ request'[r].route = "chat"
    /\ Is2xx(response'[r].status) /\ "response" \in DOMAIN response'[r].body

\* After the step the file is the dict of r, saved, and conversation id ends
\* with the user turn of `message` and the assistant turn of `text`.
SavedWithLastTurns(r, id, message, text) ==
    /\ file' = save_conversation_history(conversation_history'[r])
    /\ Len(PersistedIn(file', id)) >= 2
    /\ LastN(PersistedIn(file', id), 2) = <<Turn("user", message), Turn("assistant", text)>>

C14_Original ==
    [][\A r \in Requests :
          AnswersChat2xx(r)
          => SavedWithLastTurns(r, request'[r].id,
                                Get(request'[r].body, "message", ""),
                                response'[r].body.response)]_vars

(***************************************************************************)
(* C14, amended.  The same of every chat request whose message holds no     *)
(* email keyword: its 2xx answer carries the reply of the model and comes   *)
(* after the save.  (A message with an email keyword is answered 2xx with   *)
(* a fixed text before any save.)                                           *)
(***************************************************************************)
C14_ModelReplySavedBeforeAnswer ==
    [][\A r \in Requests :
          (AnswersChat2xx(r) /\ ~HasEmailKeyword(Get(request'[r].body, "message", "")))
          => /\ ai_response[r] = Some(response'[r].body.response)
             /\ SavedWithLastTurns(r, request'[r].id,
                                   Get(request'[r].body, "message", ""),
                                   response'[r].body.response)]_vars

\* The last request of the run so far is a chat answered 200 on a
\* conversation that held turns before it: the file ends with its two turns.
C14_Witness ==
    \E r \in Requests :
        /\ Done(r) /\ IsChat(r) /\ response[r].status = 200 /\ ModelSucceeded(r)
        /\ \A q \in Requests : q > r => pc[q] = "idle"
        /\ Carries(r, ai_response[r][1])
        /\ Len(Persisted(request[r].id)) = 4
        /\ LastN(Persisted(request[r].id), 2) = <<UserTurn(r), AssistantTurn(r)>>
        /\ file = save_conversation_history(conversation_history[r])

(***************************************************************************)
(* C15 as the spec states it.  The messages of the model call of a chat     *)
(* turn are the system prompt, the calendar context and the email context   *)
(* as system turns, the last 5 (or fewer, when there are fewer) of the      *)
(* turns the conversation held before the request, in their order, and the  *)
(* new user turn.                                                           *)
(***************************************************************************)
\* The step makes the model call of request r.
CallsModel(r) ==
    /\ Len(calls'[r]) > Len(calls[r])
    /\ calls'[r][Len(calls[r]) + 1].api = "chat.completions.create"

\* The messages of the call: the three system turns, the last `window` turns
\* the file holds for the conversation, the user turn of the request.
MessagesWithWindow(r, window) ==
    calls'[r][Len(calls[r]) + 1].body
        = << Turn("system", system_prompt),
             Turn("system", calendar_context(request[r].body.user_id)),
             Turn("system", email_context(request[r].body.user_id)) >>
          \o LastN(PersistedIn(file, request[r].id), window)
          \o << UserTurn(r) >>

C15_Original ==
    [][\A r \in Requests : CallsModel(r) => MessagesWithWindow(r, ContextTurns)]_vars

(***************************************************************************)
(* C15, amended.  The window of 5 counts the new user turn: the messages    *)
(* are the three system turns, the last 4 (or fewer) of the turns the       *)
(* conversation held before the request, and the new user turn.             *)
(***************************************************************************)
C15_WindowCountsNewTurn ==
    [][\A r \in Requests : CallsModel(r) => MessagesWithWindow(r, ContextTurns - 1)]_vars

\* The model was called for a conversation that held six turns before the
\* request: it was passed eight messages, the last four of the six among them.
C15_Witness ==
    \E r \in Requests :
        /\ IsChat(r) /\ ModelSucceeded(r)
        /\ Len(conversation_history[r][request[r].id]) = 8
        /\ Len(calls[r][1].body) = 3 + ContextTurns
        /\ calls[r][1].body[4] = conversation_history[r][request[r].id][3]
        /\ calls[r][1].body[3 + ContextTurns] = UserTurn(r)

(***************************************************************************)
(* C16 as the spec states it.  In a chat turn of a user whose credentials   *)
(* are there, and whom the providers answer, the calendar context passed    *)
(* to the model is the list `Your upcoming events: ...` and the email       *)
(* context the list `Your recent emails: ...`, not the placeholders.        *)
(***************************************************************************)
\* The credentials of the user of request r resolve and the providers answer.
CredentialsResolve(r) ==
    /\ Truthy(request[r].body.user_id)
    /\ request[r].body.user_id[1] \in UsersWithCredentials

C16_ContextFromFetchedItems ==
    \A r \in Requests :
        (PastContext(r) /\ CredentialsResolve(r))
        => \A i \in 1..Len(calls[r]) :
              calls[r][i].api = "chat.completions.create"
              => /\ calls[r][i].body[2].content # CalendarPlaceholder
                 /\ IsPrefix("Your upcoming events:", calls[r][i].body[2].content)
                 /\ calls[r][i].body[3].content # EmailPlaceholder
                 /\ IsPrefix("Your recent emails:", calls[r][i].body[3].content)

(***************************************************************************)
(* C17.  An invocation of create_calendar_event makes at most one           *)
(* events.insert and no other provider call, an invocation of send_email    *)
(* at most one messages.send and no other; when the provider call fails,    *)
(* the helper has made that one call only and raises the failure to its     *)
(* caller.                                                                  *)
(***************************************************************************)
HelperApi(helper) ==
    IF helper = "create_calendar_event" THEN "events.insert" ELSE "messages.send"

C17_HelpersAtMostOnce ==
    \A i \in 1..Len(executor) :
        LET inv == executor[i]
        IN  /\ Len(inv.returned.provider_calls) <= 1
            /\ \A j \in 1..Len(inv.returned.provider_calls) :
                  inv.returned.provider_calls[j].api = HelperApi(inv.helper)
            /\ (inv.returned.provider_calls # <<>> /\ inv.outcome # "ok")
                  => /\ inv.returned.raised = Some(inv.outcome)
                     /\ inv.returned.result = None
                     /\ Len(inv.returned.provider_calls) = 1

\* Each helper was invoked with a provider that failed: each made its one
\* call and raised HttpError.
C17_Witness ==
    /\ \E i \in 1..Len(executor) :
          /\ executor[i].helper = "create_calendar_event"
          /\ executor[i].returned.raised = Some("HttpError")
          /\ Len(executor[i].returned.provider_calls) = 1
    /\ \E i \in 1..Len(executor) :
          /\ executor[i].helper = "send_email"
          /\ executor[i].returned.raised = Some("HttpError")
          /\ Len(executor[i].returned.provider_calls) = 1

(***************************************************************************)
(* C18.  When requests do not overlap, a step changes a conversation of     *)
(* the file only when it completes a chat request or a DELETE that names    *)
(* that conversation (a chat without conversation_id names `default`);      *)
(* every other conversation is held afterwards exactly when it was held     *)
(* before, with the same turns.  The DELETE leaves the file without the     *)
(* conversation it names.                                                   *)
(***************************************************************************)
\* The conversation request r names, after the step.
Named(r) ==
    IF request'[r].route = "chat"
    THEN IF request'[r].body.conversation_id = None
         THEN "default"
         ELSE request'[r].body.conversation_id[1]
    ELSE request'[r].id

\* The step completes request r.
Completes(r) == pc[r] # "done" /\ pc'[r] = "done"

C18_OnlyNamedConversationChanges ==
    [][/\ \A id \in ConversationIds :
            (\/ HeldIn(file', id) # HeldIn(file, id)
             \/ PersistedIn(file', id) # PersistedIn(file, id))
            => \E r \in Requests :
                  /\ Completes(r) /\ Named(r) = id
                  /\ request'[r].route \in {"chat", "clear_history"}
       /\ \A r \in Requests :
            (Completes(r) /\ request'[r].route = "clear_history")
            => ~HeldIn(file', Named(r))]_vars

\* Two conversations were written, the first by a chat without
\* conversation_id, and a DELETE removed the second: the file holds the
\* two turns of `default` and not the other conversation.
C18_Witness ==
    \E r \in Requests, q \in Requests :
        /\ q < r /\ Done(r) /\ IsClear(r) /\ request[r].id # DefaultConversation
        /\ WrittenBefore(request[r].id, r)
        /\ IsChat(q) /\ request[q].body.conversation_id = None /\ ModelSucceeded(q)
        /\ ~HeldIn(file, request[r].id)
        /\ Persisted(DefaultConversation) = <<UserTurn(q), AssistantTurn(q)>>

(***************************************************************************)
(* C19.  A chat request whose model call fails is answered 500, and         *)
(* neither its first step nor the failure writes the file: when requests    *)
(* do not overlap the file is as it was before the request, the             *)
(* conversation holds what the request loaded, without its user turn, and   *)
(* a GET that comes next returns exactly that.                              *)
(***************************************************************************)
\* The step is the failure of the model call of request r.
ModelCallFails(r) ==
    /\ pc[r] = "generate" /\ pc'[r] = "done" /\ ai_response'[r] = None
    /\ ModelCalls(r) = 0 /\ Len(calls'[r]) = 1
    /\ calls'[r][1].api = "chat.completions.create"

C19_FailedModelCallLeavesStore ==
    [][\A r \in Requests :
          /\ (pc[r] = "idle" /\ pc'[r] = "generate") => file' = file
          /\ ModelCallFails(r)
                => /\ response'[r].status = 500
                   /\ file' = file
                   /\ PersistedIn(file', request[r].id)
                        = DropLast(conversation_history[r][request[r].id], 1)
          /\ ( /\ r - 1 \in Requests /\ IsChat(r - 1) /\ ModelFailed(r - 1)
               /\ pc[r] = "idle" /\ request'[r].route = "get_history"
               /\ request'[r].id = request[r - 1].id )
                => response'[r] =
                      [status |-> 200,
                       body |-> [history |->
                          DropLast(conversation_history[r - 1][request[r - 1].id], 1)]]]_vars

\* On a conversation of two turns a chat with another message failed at the
\* model call, and the GET that followed returned the two turns.
C19_Witness ==
    \E r \in Requests :
        /\ r + 1 \in Requests /\ IsChat(r) /\ ModelFailed(r) /\ response[r].status = 500
        /\ request[r + 1].route = "get_history" /\ Done(r + 1)
        /\ request[r + 1].id = request[r].id
        /\ Len(response[r + 1].body.history) = 2
        /\ response[r + 1].body.history[1].content # Message(r)
        /\ Len(conversation_history[r][request[r].id]) = 3

(***************************************************************************)
(* C20.  A chat request whose message is not empty and holds `email`,       *)
(* `gmail`, `mail` or `inbox`, in whatever case, is answered 200 in the     *)
(* step in which it arrives, with a response text and either requires_auth  *)
(* true or a list of emails; that step calls no model and leaves the file   *)
(* as it was, so the user turn is not in the file.                          *)
(***************************************************************************)
\* The message names email, case-insensitively.
NamesEmail(message) ==
    \E keyword \in {"email", "gmail", "mail", "inbox"} : Contains(keyword, Lower(message))

C20_EmailBranchAnswersUnsaved ==
    [][\A r \in Requests :
          ( /\ pc[r] = "idle" /\ pc'[r] # "idle" /\ request'[r].route = "chat"
            /\ Truthy(request'[r].body.message)
            /\ NamesEmail(request'[r].body.message[1]) )
          => /\ pc'[r] = "done"
             /\ response'[r].status = 200
             /\ "response" \in DOMAIN response'[r].body
             /\ \/ /\ "requires_auth" \in DOMAIN response'[r].body
                   /\ response'[r].body.requires_auth = TRUE
                   /\ response'[r].body.response \in {ConnectGuidance, ReconnectGuidance}
                \/ /\ "emails" \in DOMAIN response'[r].body
                   /\ response'[r].body.response = ConnectedReply
             /\ calls'[r] = <<>>
             /\ ai_response'[r] = None
             /\ file' = file]_vars

\* With a conversation in the file, `Check my Mail` was answered once without
\* user_id and once with one, each time with requires_auth, no model call and
\* no turn of it in the file.
C20_Witness ==
    /\ file.kind = "json"
    /\ \A id \in ConversationIds :
          \A i \in 1..Len(Persisted(id)) : Persisted(id)[i].content # "Check my Mail"
    /\ \E r \in Requests :
          /\ Done(r) /\ IsChat(r) /\ Message(r) = "Check my Mail"
          /\ request[r].body.user_id = None
          /\ response[r].status = 200 /\ Carries(r, ConnectGuidance)
          /\ response[r].body.requires_auth /\ ModelCalls(r) = 0
    /\ \E r \in Requests :
          /\ Done(r) /\ IsChat(r) /\ Message(r) = "Check my Mail"
          /\ request[r].body.user_id # None
          /\ response[r].status = 200 /\ Carries(r, ReconnectGuidance)
          /\ response[r].body.requires_auth /\ ModelCalls(r) = 0

(***************************************************************************)
(* C21.  From an empty store, with handlers that interleave at their loads  *)
(* and saves, every conversation the file holds is a non-empty sequence of  *)
(* even length whose odd turns are user turns and whose even turns are      *)
(* assistant turns; the file holds no system turn.                          *)
(***************************************************************************)
\* Turns that alternate user, assistant, from a user turn to an assistant turn.
Alternates(turns) ==
    /\ Len(turns) > 0 /\ Len(turns) % 2 = 0
    /\ \A i \in 1..Len(turns) :
          turns[i].role = (IF i % 2 = 1 THEN "user" ELSE "assistant")

C21_PersistedTurnsAlternate ==
    LET loaded == load_conversation_history(file)
    IN  \A id \in DOMAIN loaded :
            /\ Alternates(loaded[id])
            /\ \A i \in 1..Len(loaded[id]) : loaded[id][i].role # "system"

\* Two chats on one conversation overlapped and both were answered 200: the
\* file holds the two turns of one of them only, and a third request, which
\* loaded that, waits to save four turns.
C21_Witness ==
    \E r \in Requests, q \in Requests, t \in Requests :
        /\ r # q /\ Done(r) /\ Done(q) /\ IsChat(r) /\ IsChat(q)
        /\ request[r].id = request[q].id /\ Message(r) # Message(q)
        /\ response[r].status = 200 /\ response[q].status = 200
        /\ Persisted(request[r].id) = <<UserTurn(r), AssistantTurn(r)>>
        /\ pc[t] = "save" /\ request[t].id = request[r].id
        /\ Len(conversation_history[t][request[t].id]) = 4

(***************************************************************************)
(* C22 as the spec states it.  Handlers interleave.  A GET for an id, once  *)
(* a DELETE on that id has been answered and as long as no chat on that id  *)
(* that arrived after that answer has been answered, returns the empty      *)
(* list.                                                                    *)
(***************************************************************************)
\* The step is the arrival, and the answer, of the GET g.
GetArrives(g) == pc[g] = "idle" /\ request'[g].route = "get_history"

\* No chat on the conversation of d that arrived after d was answered has
\* been answered.
NoChatSince(d) ==
    ~ \E c \in Requests :
          /\ IsChat(c) /\ Done(c) /\ request[c].id = request[d].id
          /\ d \in finished_before[c]

\* No chat and no DELETE overlaps the request d: each had been answered when
\* d arrived, or arrived after d was answered.
NotOverlapped(d) ==
    \A q \in Requests :
        (q # d /\ request[q].route \in {"chat", "clear_history"})
        => (q \in finished_before[d] \/ d \in finished_before[q])

C22_Original ==
    [][\A g \in Requests, d \in Requests :
          ( /\ GetArrives(g) /\ IsClear(d) /\ Done(d)
            /\ request'[g].id = request[d].id /\ NoChatSince(d) )
          => response'[g] = [status |-> 200, body |-> [history |-> <<>>]]]_vars

(***************************************************************************)
(* C22, amended.  The same, of a DELETE that no chat and no other DELETE    *)
(* overlaps.  (A handler that loaded the file before the DELETE saved       *)
(* writes back the dict it loaded, and the conversation with it.)           *)
(***************************************************************************)
C22_EmptyAfterDeleteNotOverlapped ==
    [][\A g \in Requests, d \in Requests :
          ( /\ GetArrives(g) /\ IsClear(d) /\ Done(d)
            /\ request'[g].id = request[d].id /\ NoChatSince(d)
            /\ NotOverlapped(d) )
          => response'[g] = [status |-> 200, body |-> [history |-> <<>>]]]_vars

\* A conversation was written, a DELETE that nothing overlapped removed it,
\* and the GET that came after returned the empty list.
C22_Witness ==
    \E g \in Requests, d \in Requests :
        /\ Done(g) /\ request[g].route = "get_history"
        /\ IsClear(d) /\ d \in finished_before[g] /\ request[g].id = request[d].id
        /\ WrittenBefore(request[d].id, d) /\ NotOverlapped(d)
        /\ \E q \in finished_before[d] :
              IsChat(q) /\ request[q].id = request[d].id /\ response[q].status = 200
        /\ response[g] = [status |-> 200, body |-> [history |-> <<>>]]

(***************************************************************************)
(* C23 as the spec states it.  A load that runs while a save is in          *)
(* progress does not return the empty mapping.  Stated of the runs in       *)
(* which the file holds a conversation whenever it holds a whole document:  *)
(* a chat has saved and been answered, and no DELETE has arrived, so that   *)
(* every document written since is the dict of a chat, which is not empty.  *)
(***************************************************************************)
\* The step is the arrival of a request r that loads the file.
Loads(r) ==
    /\ pc[r] = "idle" /\ pc'[r] # "idle"
    /\ request'[r].route = "chat" => Truthy(request'[r].body.message)

\* The handler of q is between the open and the end of the dump of its save.
SaveInProgress(q) == pc[q] \in {"dump", "clear_dump"}

\* A chat has saved a conversation and no DELETE has arrived.
ConversationKept ==
    /\ \E p \in Requests : Done(p) /\ IsChat(p) /\ ModelSucceeded(p)
                             /\ response[p].status = 200
    /\ \A x \in Requests : ~IsClear(x)

C23_LoadNeverEmptyDuringSave ==
    [][\A r \in Requests :
          (Loads(r) /\ ConversationKept /\ \E q \in Requests : SaveInProgress(q))
          => load_conversation_history(file) # EmptyDict]_vars

(***************************************************************************)
(* C24.  In every browser session, a step that writes token.pickle is an    *)
(* /oauth2callback of a session whose state comes from an /calendar/        *)
(* authorize of that session after which no callback of the session has     *)
(* succeeded.  A callback without state in the session is answered 400 and  *)
(* writes no token; one that succeeds removes the state; one whose token    *)
(* exchange fails writes no token and leaves the state.                     *)
(***************************************************************************)
\* The step is a request of browser b to /oauth2callback answered `status`.
CallbackStep(b, status) ==
    /\ Len(oauth_log') = Len(oauth_log) + 1
    /\ oauth_log'[Len(oauth_log')].route = "oauth2callback"
    /\ oauth_log'[Len(oauth_log')].browser = b
    /\ oauth_log'[Len(oauth_log')].status = status

\* An authorize of browser b has put `state` into the session and no
\* callback of b has succeeded since.
AuthorizedUnconsumed(b, state) ==
    \E j \in 1..Len(oauth_log) :
        /\ oauth_log[j] = OAuthEvent(b, "authorize", 200, state)
        /\ \A k \in (j + 1)..Len(oauth_log) :
              ~ ( /\ oauth_log[k].browser = b /\ oauth_log[k].route = "oauth2callback"
                  /\ oauth_log[k].status = 200 )

C24_TokenOnlyAfterAuthorize ==
    [][/\ token_pickle' # token_pickle
            => \E b \in Browsers :
                  /\ CallbackStep(b, 200)
                  /\ session[b] # None /\ AuthorizedUnconsumed(b, session[b])
       /\ \A b \in Browsers :
            /\ (session[b] = None /\ \E st \in {200, 400, 500} : CallbackStep(b, st))
                  => CallbackStep(b, 400) /\ token_pickle' = token_pickle
            /\ CallbackStep(b, 200)
                  => session'[b] = None /\ token_pickle' # token_pickle
            /\ CallbackStep(b, 500)
                  => session' = session /\ token_pickle' = token_pickle
                     /\ session[b] # None]_vars

\* In one session: an authorize, a callback whose exchange failed, one that
\* wrote the token, and one more, answered 400.
C24_Witness ==
    \E b \in Browsers :
        /\ Len(oauth_log) = 4
        /\ oauth_log[1] = OAuthEvent(b, "authorize", 200, Some(1))
        /\ oauth_log[2] = OAuthEvent(b, "oauth2callback", 500, Some(1))
        /\ oauth_log[3] = OAuthEvent(b, "oauth2callback", 200, Some(1))
        /\ oauth_log[4] = OAuthEvent(b, "oauth2callback", 400, None)
        /\ token_pickle = Some([state |-> 1, exchange |-> 3])
        /\ session[b] = None

(***************************************************************************)
(* C25 as the spec states it.  A request to /auth/callback is answered      *)
(* with a success, and then the row of the user and the entry of the user   *)
(* in user_credentials hold the tokens of the request; or it is answered    *)
(* 400 (a field is missing) or 500, and then neither the table nor          *)
(* user_credentials has changed.                                            *)
(***************************************************************************)
\* A field of the body of an /auth/callback request is missing or empty.
FieldMissing(body) ==
    \E field \in {"user_id", "access_token", "refresh_token", "expires_at"} :
        ~Truthy(body[field])

C25_AuthCallbackAllOrNothing ==
    [][Len(auth_log') = Len(auth_log) + 1
        => LET event == auth_log'[Len(auth_log')]
               body == event.body
           IN  \/ /\ event.status = 200
                  /\ user_metadata'[body.user_id[1]]
                        = Some(Row(body.access_token[1], body.refresh_token[1],
                                   body.expires_at[1]))
                  /\ user_credentials'[body.user_id[1]] # None
                  /\ user_credentials'[body.user_id[1]][1].token = body.access_token[1]
                  /\ user_credentials'[body.user_id[1]][1].refresh_token
                        = body.refresh_token[1]
               \/ /\ event.status = (IF FieldMissing(body) THEN 400 ELSE 500)
                  /\ user_metadata' = user_metadata
                  /\ user_credentials' = user_credentials]_vars

====
